---------------------------- MODULE Spec2Model ----------------------------
(***************************************************************************)
(* Model of src/dependencyUpdater.js: one run of the dependency updater.   *)
(*                                                                         *)
(* The run is an async function.  It executes synchronously between its    *)
(* awaits, so the model has one action per resumption: the start of the    *)
(* process, the arrival of a registry response in flight, the handling of  *)
(* the target's response, the operator's answer to the target prompt, the  *)
(* handling of a dependency's response and the operator's answer to a      *)
(* dependency prompt.  The final writeFileSync belongs to whichever        *)
(* resumption leaves the dependency loop.                                  *)
(*                                                                         *)
(* Model of src/unnamed/part_001: the hook useMaxBrightness with refs.     *)
(* enableMax and reset are async functions too: a call runs to its first   *)
(* await, and every later resumption is a step of its own, so calls        *)
(* started by different renders interleave at their awaits.                *)
(*                                                                         *)
(* Model of src/RN_useMaxBrightness.ts: the hook useMaxBrightness with     *)
(* state.  Every render creates maxBrightness and resetBrightness anew,    *)
(* closed over that render's originalBrightness; the cleanup of the effect *)
(* keeps the resetBrightness of the render in which the effect ran last.   *)
(***************************************************************************)
EXTENDS Naturals, Sequences, FiniteSets, Bags

\* ------------------------------------------------------------------ bounds

\* Highest major version number in the registry's version universe.
MaxMajor == 2

\* Highest number of version keys in one registry document.
MaxKeys == 2

\* Highest number of entries of the manifest, both classes together.
MaxEntries == 2

\* Highest number of version keys in a dependency's registry document
\* during a whole run (specification Spec).
RunDepKeys == 1

\* Number of brightness levels above level 0; the highest is full brightness.
MaxLevel == 2

\* Highest number of calls of enableMax and reset awaiting at a time.
MaxCalls == 4

\* ------------------------------------------------------- program constants

\* choices: allVersions.slice(0, 50)
TargetChoices == 50

\* choices: compatibleVersions.slice(0, 20)
DepChoices == 20

\* ------------------------------------------------------------------ semver

\* A version is <<major, minor, patch>>.
Versions == {<<m, n, 0>> : m \in 1..MaxMajor, n \in 0..1}

\* semver precedence: major, then minor, then patch.
SemverGt(v, w) ==
    \/ v[1] > w[1]
    \/ v[1] = w[1] /\ v[2] > w[2]
    \/ v[1] = w[1] /\ v[2] = w[2] /\ v[3] > w[3]

SemverGte(v, w) == v = w \/ SemverGt(v, w)

\* A range string of the manifest or of a peerDependencies mapping:
\* "1.2.3" (exact), "^1.2.3" (caret) or "" (the empty string).
Exact(v) == [op |-> "exact", v |-> v]
Caret(v) == [op |-> "caret", v |-> v]
EmptyRange == [op |-> "empty", v |-> <<0, 0, 0>>]

\* semver.satisfies(version, range) for a release version.  The empty range
\* is "*"; a caret range allows changes that keep the left-most non-zero
\* component.
Satisfies(v, r) ==
    CASE r.op = "empty" -> TRUE
      [] r.op = "exact" -> v = r.v
      [] r.op = "caret" ->
            /\ SemverGte(v, r.v)
            /\ IF r.v[1] > 0 THEN v[1] = r.v[1]
               ELSE IF r.v[2] > 0 THEN v[1] = 0 /\ v[2] = r.v[2]
               ELSE v = r.v

\* ----------------------------------------------------------------- registry

\* A key of a registry document's `versions` mapping: a release version
\* ("2.0.0"), a prerelease of a version ("2.0.0-beta.1") or a string that
\* is no semantic version.  The universe holds every release, a prerelease
\* of the highest version and one invalid key.
ReleaseKey(v) == [ver |-> v, tag |-> "release"]
PrereleaseKey(v) == [ver |-> v, tag |-> "prerelease"]
InvalidKey == [ver |-> <<0, 0, 0>>, tag |-> "invalid"]

RawKeys == {ReleaseKey(v) : v \in Versions}
           \cup {PrereleaseKey(<<MaxMajor, 1, 0>>), InvalidKey}

\* What a version declares in peerDependencies[mainPkgName].
NoPeer == [op |-> "none", v |-> <<0, 0, 0>>]
PeerRanges == {NoPeer} \cup {Caret(<<m, 0, 0>>) : m \in 1..MaxMajor}

\* The `versions` mapping of a document, in key order: a sequence of
\* entries with distinct keys.
DistinctKeys(s) == \A i, j \in 1..Len(s) : i # j => s[i].key # s[j].key

VersionMappings(keys, peers, n) ==
    {s \in UNION {[1..k -> [key : keys, peer : peers]] : k \in 0..n} : DistinctKeys(s)}

\* The outcome of fetchJson: a rejection, a document without a `versions`
\* mapping, or a document with one.
FetchError == [kind |-> "error", versions |-> <<>>]
NoVersionsField == [kind |-> "unusable", versions |-> <<>>]
Document(vs) == [kind |-> "ok", versions |-> vs]
NoReply == [kind |-> "none", versions |-> <<>>]

TargetReplies ==
    {FetchError, NoVersionsField}
    \cup {Document(vs) : vs \in VersionMappings(RawKeys, {NoPeer}, MaxKeys)}

RunDepReplies ==
    {FetchError, NoVersionsField}
    \cup {Document(vs) : vs \in VersionMappings(RawKeys, PeerRanges, RunDepKeys)}

DepReplies ==
    {FetchError, NoVersionsField}
    \cup {Document(vs) : vs \in VersionMappings(RawKeys, PeerRanges, MaxKeys)}

\* A mapping of n release keys 1.0.0, 1.1.0, ... in ascending or descending
\* key order; the highest version declares peer range p, the others none.
LongMapping(n, ascending, p) ==
    [i \in 1..n |->
        LET k == IF ascending THEN i - 1 ELSE n - i
        IN  [key |-> ReleaseKey(<<1, k, 0>>),
             peer |-> IF k = n - 1 THEN p ELSE NoPeer]]

\* Documents with more stable versions than a prompt offers.
LongTargetReplies ==
    {Document(LongMapping(TargetChoices + 1, asc, NoPeer)) : asc \in BOOLEAN}

LongDepReplies ==
    {Document(LongMapping(DepChoices + 2, asc, p)) : asc \in BOOLEAN, p \in PeerRanges}

\* ----------------------------------------------------------------- manifest

\* A dependency class is a mapping in insertion order: a sequence of
\* [name, range] entries with distinct names.  A class missing from
\* package.json reads as the empty mapping (the ?. and || {} of the source).
PkgNames == {"t", "a", "b"}
NoArg == "--none--"
Undefined == [op |-> "undefined", v |-> <<0, 0, 0>>]

InstalledRanges == {Exact(<<1, 0, 0>>), Caret(<<MaxMajor, 0, 0>>), EmptyRange}

DistinctNames(s) == \A i, j \in 1..Len(s) : i # j => s[i].name # s[j].name

Classes ==
    {s \in UNION {[1..k -> [name : PkgNames, range : InstalledRanges]] : k \in 0..MaxEntries} :
        DistinctNames(s)}

Manifests ==
    {m \in [dependencies : Classes, devDependencies : Classes] :
        Len(m.dependencies) + Len(m.devDependencies) <= MaxEntries}

\* package.json absent from the working directory, and the in-memory
\* manifest before it is read.
NoFile == [dependencies |-> <<[name |-> "--missing--", range |-> Undefined]>>,
           devDependencies |-> <<>>]
NotLoaded == [dependencies |-> <<[name |-> "--unread--", range |-> Undefined]>>,
              devDependencies |-> <<>>]

\* obj[name], Undefined when the key is absent.
Get(class, name) ==
    IF \E i \in 1..Len(class) : class[i].name = name
    THEN class[CHOOSE i \in 1..Len(class) : class[i].name = name].range
    ELSE Undefined

\* JavaScript truthiness of obj[name]: undefined and "" are falsy.
Truthy(r) == r # Undefined /\ r # EmptyRange

\* obj[name] = range: an existing key keeps its position, a new key is
\* appended.
Put(class, name, range) ==
    IF \E i \in 1..Len(class) : class[i].name = name
    THEN [i \in 1..Len(class) |->
            IF class[i].name = name THEN [name |-> name, range |-> range] ELSE class[i]]
    ELSE Append(class, [name |-> name, range |-> range])

HasKey(class, name) == \E i \in 1..Len(class) : class[i].name = name

Min(a, b) == IF a <= b THEN a ELSE b

\* ------------------------------------------------------------------- state

VARIABLES
    pc,                   \* where the run stands
    mainPkgName,          \* args.find(arg => !arg.startsWith('--')), or NoArg
    useLatest,            \* --latest
    showIncompatible,     \* --check-incompatibilities
    autoUpdate,           \* --autoupdate
    fileContent,          \* package.json on disk, or NoFile
    packageJson,          \* the manifest in memory
    reply,                \* the registry response in flight, or NoReply
    metadata,             \* the document in hand (metadata, depMeta), or NoReply
    allVersions,          \* the target's stable versions
    selectedMainVersion,  \* the chosen target version
    allDeps,              \* the merged mapping the loop iterates
    depIndex,             \* position of the loop in Object.keys(allDeps)
    compatibleVersions,   \* the compatible versions of the dependency in hand
    console,              \* what the last resumption printed
    writes,               \* number of fs.writeFileSync calls so far
    requests,             \* the packages whose document was requested, in order
    platform,             \* Platform.OS
    lifecycle,            \* the component that uses the hook: idle, mounted, unmounted
    isFocused,            \* useIsFocused()
    enabled,              \* the hook's option
    readyRef,             \* readyRef.current
    wasUsingSystemRef,    \* wasUsingSystemRef.current
    savedAppBrightnessRef,\* savedAppBrightnessRef.current
    brightness,           \* the app brightness of the device
    usingSystem,          \* the device follows the system brightness
    calls,                \* the calls of enableMax and reset that are awaiting
    beforeMax,            \* history: the device when the pending enableMax sequence began
    disabled,             \* RN_useMaxBrightness.ts: the hook's argument
    originalBrightness,   \* RN_useMaxBrightness.ts: the state, as of the last render
    cleanup               \* RN_useMaxBrightness.ts: the cleanup the effect returned last

runVars == <<pc, mainPkgName, useLatest, showIncompatible, autoUpdate, fileContent,
             packageJson, reply, metadata, allVersions, selectedMainVersion, allDeps,
             depIndex, compatibleVersions, console, writes, requests>>

hookVars == <<platform, lifecycle, isFocused, enabled, readyRef, wasUsingSystemRef,
              savedAppBrightnessRef, brightness, usingSystem, calls, beforeMax>>

\* The state of useMaxBrightness of RN_useMaxBrightness.ts that the version
\* with refs does not have.
stateVars == <<disabled, originalBrightness, cleanup>>

vars == <<runVars, hookVars, stateVars>>

\* null, and a value that is not null.
Null == <<>>
Value(x) == <<x>>

\* Brightness.setBrightnessAsync(1): full brightness.
Full == MaxLevel

\* What the device shows: the app brightness, and whether the app follows
\* the system brightness.
Device == [level |-> brightness, system |-> usingSystem]

\* What useEffect keeps of the effect's last run: whether it returned a
\* cleanup, and the originalBrightness that the cleanup's resetBrightness
\* closed over.
Cleanup(registered, captured) == [registered |-> registered, original |-> captured]
NoCleanup == Cleanup(FALSE, Null)

\* No component uses the hook.
NoHook ==
    /\ platform = "ios"
    /\ lifecycle = "idle"
    /\ isFocused = FALSE
    /\ enabled = FALSE
    /\ readyRef = FALSE
    /\ wasUsingSystemRef = Null
    /\ savedAppBrightnessRef = Null
    /\ brightness = 0
    /\ usingSystem = FALSE
    /\ calls = EmptyBag
    /\ beforeMax = Device
    /\ disabled = FALSE
    /\ originalBrightness = Null
    /\ cleanup = NoCleanup

flags == <<mainPkgName, useLatest, showIncompatible, autoUpdate>>

NoVersion == <<0, 0, 0>>

\* ------------------------------------------------------- version classifier

Reverse(s) == [i \in 1..Len(s) |-> s[Len(s) + 1 - i]]

\* semver.valid(v) && semver.prerelease(v) === null
IsStable(e) == e.key.tag # "invalid" /\ e.key.tag # "prerelease"

\* The version list without the filter of valid, non-prerelease keys.
StableVersionsUnfiltered(vs) == Reverse(vs)

\* Object.keys(meta.versions).filter(...).reverse(): the stable entries of
\* the mapping, last key first.
StableVersions(vs) == Reverse(SelectSeq(vs, IsStable))

VersionsOf(es) == [i \in 1..Len(es) |-> es[i].key.ver]

\* ---------------------------------------------------- compatibility checks

\* !peer[mainPkgName] || semver.satisfies(selectedMainVersion, peer[mainPkgName])
PeerAllows(e, selected) ==
    \/ e.peer = NoPeer
    \/ ~Truthy(e.peer)
    \/ Satisfies(selected, e.peer)

\* The scan stopped after the newest version whatever its peer range.
AlreadyCompatibleNewestOnly(versions, selected, installedRange) ==
    /\ Len(versions) > 0
    /\ PeerAllows(versions[1], selected)
    /\ Satisfies(versions[1].key.ver, installedRange)

\* The scan for alreadyCompatible: the first entry whose peer range allows
\* the selected target version ends the scan, and the dependency is already
\* compatible when that entry satisfies the installed range.
AlreadyCompatible(versions, selected, installedRange) ==
    \E i \in 1..Len(versions) :
        /\ PeerAllows(versions[i], selected)
        /\ \A j \in 1..(i - 1) : ~PeerAllows(versions[j], selected)
        /\ Satisfies(versions[i].key.ver, installedRange)

\* The filter of compatibleVersions without the peer check.
CompatibleVersionsUnfiltered(versions, selected) == VersionsOf(versions)

CompatibleVersions(versions, selected) ==
    LET Allowed(e) == PeerAllows(e, selected)
    IN  VersionsOf(SelectSeq(versions, Allowed))

\* ---------------------------------------------------------- manifest edits

\* {...packageJson.dependencies, ...packageJson.devDependencies}: the keys
\* of dependencies in order, then the new keys of devDependencies; a key of
\* both takes the devDependencies value.
RECURSIVE Merge(_, _)
Merge(acc, class) ==
    IF class = <<>> THEN acc
    ELSE Merge(Put(acc, Head(class).name, Head(class).range), Tail(class))

\* The merge with the two spreads exchanged.
GetAllDependenciesDevFirst(pj) == Merge(pj.devDependencies, pj.dependencies)

GetAllDependencies(pj) == Merge(pj.dependencies, pj.devDependencies)

\* Lines 124-131: the target goes to dependencies if it has a truthy entry
\* there, else to devDependencies if it has one there, else to dependencies.
ApplyTargetVersion(pj, name, range) ==
    IF Truthy(Get(pj.dependencies, name))
    THEN [pj EXCEPT !.dependencies = Put(@, name, range)]
    ELSE IF Truthy(Get(pj.devDependencies, name))
    THEN [pj EXCEPT !.devDependencies = Put(@, name, range)]
    ELSE [pj EXCEPT !.dependencies = Put(@, name, range)]

\* The write-back with the caret prefix that the target's entry gets under
\* --latest.
WriteBackWithCaret(pj, name, range) ==
    IF Truthy(Get(pj.dependencies, name))
    THEN [pj EXCEPT !.dependencies = Put(@, name, Caret(range.v))]
    ELSE IF Truthy(Get(pj.devDependencies, name))
    THEN [pj EXCEPT !.devDependencies = Put(@, name, Caret(range.v))]
    ELSE pj

\* Lines 184-188: a dependency is rewritten where it has a truthy entry.
WriteBack(pj, name, range) ==
    IF Truthy(Get(pj.dependencies, name))
    THEN [pj EXCEPT !.dependencies = Put(@, name, range)]
    ELSE IF Truthy(Get(pj.devDependencies, name))
    THEN [pj EXCEPT !.devDependencies = Put(@, name, range)]
    ELSE pj

\* The range string written for the target: `^${v}` under --latest, else v.
TargetRange(latest, v) == IF latest THEN Caret(v) ELSE Exact(v)

\* The next key of the loop after position i that is not the target
\* (`if (dep === mainPkgName) continue`), Len(deps) + 1 when there is none.
RECURSIVE NextDep(_, _, _)
NextDep(deps, name, i) ==
    IF i + 1 > Len(deps) THEN Len(deps) + 1
    ELSE IF deps[i + 1].name = name THEN NextDep(deps, name, i + 1)
    ELSE i + 1

\* ------------------------------------------------------------------ actions

Init ==
    /\ pc = "start"
    /\ mainPkgName \in {NoArg, "t"}
    /\ useLatest \in BOOLEAN
    /\ showIncompatible \in BOOLEAN
    /\ autoUpdate \in BOOLEAN
    /\ fileContent \in Manifests \cup {NoFile}
    /\ packageJson = NotLoaded
    /\ reply = NoReply
    /\ metadata = NoReply
    /\ allVersions = <<>>
    /\ selectedMainVersion = NoVersion
    /\ allDeps = <<>>
    /\ depIndex = 0
    /\ compatibleVersions = <<>>
    /\ console = {}
    /\ writes = 0
    /\ requests = <<>>
    /\ NoHook

\* Start without the existence check of lines 90-93: a missing package.json
\* is read as an empty manifest.
StartWithoutExistenceCheck ==
    /\ pc = "start"
    /\ UNCHANGED <<hookVars, stateVars>>
    /\ IF mainPkgName = NoArg
       THEN pc' = "exit1" /\ console' = {"usage"} /\ UNCHANGED <<packageJson, requests>>
       ELSE /\ pc' = "awaitTarget"
            /\ console' = {"fetching"}
            /\ packageJson' = IF fileContent = NoFile
                               THEN [dependencies |-> <<>>, devDependencies |-> <<>>]
                               ELSE fileContent
            /\ requests' = <<mainPkgName>>
    /\ UNCHANGED <<flags, fileContent, reply, metadata, allVersions,
                   selectedMainVersion, allDeps, depIndex, compatibleVersions, writes>>

\* Lines 57-62 and 88-98: the argument check, the existence check, the read
\* of package.json and the request for the target's document.
Start ==
    /\ pc = "start"
    /\ UNCHANGED <<hookVars, stateVars>>
    /\ IF mainPkgName = NoArg
       THEN pc' = "exit1" /\ console' = {"usage"} /\ UNCHANGED <<packageJson, requests>>
       ELSE IF fileContent = NoFile
       THEN pc' = "exit1" /\ console' = {"notFound"} /\ UNCHANGED <<packageJson, requests>>
       ELSE /\ pc' = "awaitTarget"
            /\ console' = {"fetching"}
            /\ packageJson' = fileContent
            /\ requests' = <<mainPkgName>>
    /\ UNCHANGED <<flags, fileContent, reply, metadata, allVersions,
                   selectedMainVersion, allDeps, depIndex, compatibleVersions, writes>>

\* The registry answers the pending request (fetchJson settles).  The
\* locals of the iteration before it are out of scope by then.
Answer(replies) ==
    /\ reply = NoReply
    /\ UNCHANGED <<hookVars, stateVars>>
    /\ reply' \in replies
    /\ metadata' = NoReply
    /\ allVersions' = <<>>
    /\ compatibleVersions' = <<>>
    /\ UNCHANGED <<pc, flags, fileContent, packageJson, selectedMainVersion,
                   allDeps, depIndex, console, writes, requests>>

RegistryReply ==
    /\ pc \in {"awaitTarget", "awaitDep"}
    /\ Answer(IF pc = "awaitTarget" THEN TargetReplies ELSE RunDepReplies)

\* Resume with a failure of the dependency in hand ending the run.
ResumeUnlessFailed(pj, deps, i, out) ==
    \E j \in {NextDep(deps, mainPkgName, i)} :
        /\ packageJson' = pj
        /\ allDeps' = deps
        /\ IF "failed" \in out
           THEN /\ pc' = "crashed"
                /\ console' = out
                /\ UNCHANGED <<depIndex, fileContent, writes, requests>>
           ELSE /\ depIndex' = j
                /\ IF j > Len(deps)
                   THEN /\ pc' = "done"
                        /\ fileContent' = pj
                        /\ writes' = writes + 1
                        /\ console' = out \cup {"updated"}
                        /\ UNCHANGED requests
                   ELSE /\ pc' = "awaitDep"
                        /\ console' = out
                        /\ requests' = Append(requests, deps[j].name)
                        /\ UNCHANGED <<fileContent, writes>>

\* Resume with package.json rewritten at every resumption instead of once
\* after the loop.
ResumeWritingEachTime(pj, deps, i, out) ==
    \E j \in {NextDep(deps, mainPkgName, i)} :
        /\ packageJson' = pj
        /\ allDeps' = deps
        /\ depIndex' = j
        /\ fileContent' = pj
        /\ writes' = writes + 1
        /\ IF j > Len(deps)
           THEN pc' = "done" /\ console' = out \cup {"updated"} /\ UNCHANGED requests
           ELSE /\ pc' = "awaitDep"
                /\ console' = out
                /\ requests' = Append(requests, deps[j].name)

\* The run moves on to the key after position i of deps with manifest pj:
\* it requests that dependency's document (line 139), or leaves the loop and
\* writes package.json (line 198).
Resume(pj, deps, i, out) ==
    \E j \in {NextDep(deps, mainPkgName, i)} :
        /\ packageJson' = pj
        /\ allDeps' = deps
        /\ depIndex' = j
        /\ IF j > Len(deps)
           THEN /\ pc' = "done"
                /\ fileContent' = pj
                /\ writes' = writes + 1
                /\ console' = out \cup {"updated"}
                /\ UNCHANGED requests
           ELSE /\ pc' = "awaitDep"
                /\ console' = out
                /\ requests' = Append(requests, deps[j].name)
                /\ UNCHANGED <<fileContent, writes>>

\* Lines 122-133: the target version v is applied and the loop is entered.
\* A value used several times is bound by a quantifier over a singleton, so
\* that it is computed once.
EnterLoop(v) ==
    \E pj \in {ApplyTargetVersion(packageJson, mainPkgName, TargetRange(useLatest, v))} :
      \E deps \in {GetAllDependencies(pj)} :
        /\ selectedMainVersion' = v
        /\ Resume(pj, deps, 0, {"updating"})

\* Lines 98-120: the target's document arrives.
OnTargetResponse ==
    /\ pc = "awaitTarget"
    /\ UNCHANGED <<hookVars, stateVars>>
    /\ reply # NoReply
    /\ metadata' = reply
    /\ reply' = NoReply
    /\ UNCHANGED <<flags, compatibleVersions>>
    /\ IF reply.kind # "ok"
       THEN /\ pc' = "crashed"
            /\ console' = {}
            /\ UNCHANGED <<fileContent, packageJson, allVersions, selectedMainVersion,
                           allDeps, depIndex, writes, requests>>
       ELSE \E stable \in {VersionsOf(StableVersions(reply.versions))} :
                /\ allVersions' = stable
                /\ IF Len(stable) = 0
                   THEN /\ pc' = "returned"
                        /\ console' = {"noStable"}
                        /\ UNCHANGED <<fileContent, packageJson, selectedMainVersion,
                                       allDeps, depIndex, writes, requests>>
                   ELSE IF useLatest
                   THEN EnterLoop(stable[1])
                   ELSE /\ pc' = "promptTarget"
                        /\ console' = {}
                        /\ UNCHANGED <<fileContent, packageJson, selectedMainVersion,
                                       allDeps, depIndex, writes, requests>>

\* Lines 111-119: the operator picks one of the first 50 stable versions.
OnTargetAnswer ==
    /\ pc = "promptTarget"
    /\ UNCHANGED <<hookVars, stateVars>>
    /\ UNCHANGED <<flags, reply, metadata, allVersions, compatibleVersions>>
    /\ \E k \in 1..Min(Len(allVersions), TargetChoices) : EnterLoop(allVersions[k])

\* Lines 139-195: a dependency's document arrives.
OnDepResponse ==
    /\ pc = "awaitDep"
    /\ UNCHANGED <<hookVars, stateVars>>
    /\ reply # NoReply
    /\ metadata' = reply
    /\ reply' = NoReply
    /\ UNCHANGED <<flags, selectedMainVersion, allVersions>>
    /\ LET dep == allDeps[depIndex]
       IN  IF reply.kind # "ok"
           THEN /\ compatibleVersions' = <<>>
                /\ Resume(packageJson, allDeps, depIndex, {"failed"})
           ELSE \E versions \in {StableVersions(reply.versions)} :
                \E compatible \in {CompatibleVersions(versions, selectedMainVersion)} :
                    IF AlreadyCompatible(versions, selectedMainVersion, dep.range)
                    THEN /\ compatibleVersions' = <<>>
                         /\ Resume(packageJson, allDeps, depIndex, {"compatible"})
                    ELSE /\ compatibleVersions' = compatible
                         /\ IF Len(compatible) > 0
                            THEN IF autoUpdate
                                 THEN Resume(WriteBack(packageJson, dep.name,
                                                       Exact(compatible[1])),
                                             allDeps, depIndex,
                                             {"notCompatible", "replaced"})
                                 ELSE /\ pc' = "promptDep"
                                      /\ console' = {"notCompatible"}
                                      /\ UNCHANGED <<fileContent, packageJson, allDeps,
                                                     depIndex, writes, requests>>
                            ELSE Resume(packageJson, allDeps, depIndex,
                                        IF showIncompatible
                                        THEN {"noCompatibleVersion"} ELSE {})

\* Lines 172-188: the operator picks one of the first 20 compatible versions.
OnDepAnswer ==
    /\ pc = "promptDep"
    /\ UNCHANGED <<hookVars, stateVars>>
    /\ UNCHANGED <<flags, selectedMainVersion, reply, metadata, allVersions,
                   compatibleVersions>>
    /\ \E k \in 1..Min(Len(compatibleVersions), DepChoices) :
          Resume(WriteBack(packageJson, allDeps[depIndex].name,
                           Exact(compatibleVersions[k])),
                 allDeps, depIndex, {"replaced"})

Next ==
    \/ Start
    \/ RegistryReply
    \/ OnTargetResponse
    \/ OnTargetAnswer
    \/ OnDepResponse
    \/ OnDepAnswer

Spec == Init /\ [][Next]_vars

\* Every registry request is eventually answered or fails, every prompt is
\* eventually answered, and the event loop runs every continuation that is
\* ready.
Fairness ==
    /\ WF_vars(Start)
    /\ WF_vars(RegistryReply)
    /\ WF_vars(OnTargetResponse)
    /\ WF_vars(OnTargetAnswer)
    /\ WF_vars(OnDepResponse)
    /\ WF_vars(OnDepAnswer)

\* The runs whose progress is examined: the package name is given and
\* package.json exists; its entries all hold the same installed range.
PinnedRange == Exact(<<1, 0, 0>>)

Pinned(class) == \A i \in 1..Len(class) : class[i].range = PinnedRange

InitRun ==
    /\ Init
    /\ mainPkgName # NoArg
    /\ fileContent # NoFile
    /\ Pinned(fileContent.dependencies)
    /\ Pinned(fileContent.devDependencies)

SpecRun == InitRun /\ [][Next]_vars /\ Fairness

\* ------------------------------------------------- one dependency's iteration

\* The states of a run in which the document of a dependency is in flight:
\* the manifest was read, the target version v was chosen and applied, and
\* the loop stands at its first dependency.  The document is any mapping of
\* up to MaxKeys keys, or one with more compatible versions than the prompt
\* offers.
InitDep ==
    /\ pc = "awaitDep"
    /\ mainPkgName = "t"
    /\ useLatest \in BOOLEAN
    /\ showIncompatible \in BOOLEAN
    /\ autoUpdate \in BOOLEAN
    /\ fileContent \in Manifests
    /\ selectedMainVersion \in Versions
    /\ packageJson = ApplyTargetVersion(fileContent, mainPkgName,
                                        TargetRange(useLatest, selectedMainVersion))
    /\ allDeps = GetAllDependencies(packageJson)
    /\ depIndex = NextDep(allDeps, mainPkgName, 0)
    /\ depIndex <= Len(allDeps)
    /\ \A i \in 1..Len(allDeps) : allDeps[i].name \in {"t", "a"}
    /\ reply \in DepReplies \cup LongDepReplies
    /\ metadata = NoReply
    /\ allVersions = <<>>
    /\ compatibleVersions = <<>>
    /\ console = {"updating"}
    /\ writes = 0
    /\ requests = <<mainPkgName, allDeps[depIndex].name>>
    /\ NoHook

NextOfDep ==
    \/ OnDepResponse
    \/ OnDepAnswer

SpecDep == InitDep /\ [][NextOfDep]_vars

\* ------------------------------------------------------ the react example

\* The run of the header's example: react and react-dom at 18.2.0 in
\* dependencies, target react, --latest --autoupdate.  The registry holds
\* documents of up to MaxKeys + 1 keys for react and up to MaxKeys keys for
\* react-dom, in any key order.
V18_2_0 == <<18, 2, 0>>
V19_0_0 == <<19, 0, 0>>
V19_1_0 == <<19, 1, 0>>

ExampleKeys ==
    {ReleaseKey(V18_2_0), ReleaseKey(V19_0_0), ReleaseKey(V19_1_0),
     PrereleaseKey(<<19, 2, 0>>)}

ExamplePeers == {NoPeer, Caret(<<18, 0, 0>>), Caret(V19_0_0)}

ExampleManifest ==
    [dependencies |-> <<[name |-> "react", range |-> Exact(V18_2_0)],
                        [name |-> "react-dom", range |-> Exact(V18_2_0)]>>,
     devDependencies |-> <<>>]

ExampleTargetReplies ==
    {Document(vs) : vs \in VersionMappings(ExampleKeys, {NoPeer}, MaxKeys + 1)}

ExampleDepReplies ==
    {Document(vs) : vs \in VersionMappings(ExampleKeys, ExamplePeers, MaxKeys)}

InitExample ==
    /\ pc = "start"
    /\ mainPkgName = "react"
    /\ useLatest = TRUE
    /\ showIncompatible \in BOOLEAN
    /\ autoUpdate = TRUE
    /\ fileContent = ExampleManifest
    /\ packageJson = NotLoaded
    /\ reply = NoReply
    /\ metadata = NoReply
    /\ allVersions = <<>>
    /\ selectedMainVersion = NoVersion
    /\ allDeps = <<>>
    /\ depIndex = 0
    /\ compatibleVersions = <<>>
    /\ console = {}
    /\ writes = 0
    /\ requests = <<>>
    /\ NoHook

ExampleRegistryReply ==
    /\ pc \in {"awaitTarget", "awaitDep"}
    /\ Answer(IF pc = "awaitTarget" THEN ExampleTargetReplies ELSE ExampleDepReplies)

NextOfExample ==
    \/ Start
    \/ ExampleRegistryReply
    \/ OnTargetResponse
    \/ OnDepResponse

SpecExample == InitExample /\ [][NextOfExample]_vars


\* The states of a run in which the document of the target is in flight:
\* the arguments were accepted and the manifest was read.  The document is
\* any mapping of up to MaxKeys keys, or one with more stable versions than
\* the prompt offers.
InitTarget ==
    /\ pc = "awaitTarget"
    /\ mainPkgName = "t"
    /\ useLatest \in BOOLEAN
    /\ showIncompatible \in BOOLEAN
    /\ autoUpdate \in BOOLEAN
    /\ fileContent \in Manifests
    /\ packageJson = fileContent
    /\ reply \in TargetReplies \cup LongTargetReplies
    /\ metadata = NoReply
    /\ allVersions = <<>>
    /\ selectedMainVersion = NoVersion
    /\ allDeps = <<>>
    /\ depIndex = 0
    /\ compatibleVersions = <<>>
    /\ console = {"fetching"}
    /\ writes = 0
    /\ requests = <<mainPkgName>>
    /\ NoHook

NextOfTarget ==
    \/ OnTargetResponse
    \/ OnTargetAnswer

SpecTarget == InitTarget /\ [][NextOfTarget]_vars

\* ------------------------------------------------ useMaxBrightness with refs

\* A call of enableMax or reset that is awaiting: the function, the await
\* it stands at, and what the awaited operation will return.
Call(fn, at, sys, level) == [fn |-> fn, at |-> at, wasUsingSystem |-> sys, value |-> level]

\* enableMax() and reset() up to their first await.  reset awaits
\* ensureAvailable at once; enableMax returns if readyRef.current is set.
ResetCall == Call("reset", "ensureAvailable", FALSE, 0)
EnableMaxCall == Call("enableMax", "ensureAvailable", FALSE, 0)

Copies(c, n) == IF n = 0 THEN EmptyBag ELSE [x \in {c} |-> n]

Without(bag, c) == bag (-) Copies(c, 1)

\* Lines 91-96: the body of the first effect.
EffectBody(focused, on) ==
    IF focused /\ on
    THEN IF readyRef THEN EmptyBag ELSE Copies(EnableMaxCall, 1)
    ELSE Copies(ResetCall, 1)

\* The effect body starts enableMax while no call of enableMax is awaiting
\* and readyRef is clear: a sequence begins, and the history variable
\* records the device as it is then.
Begins(focused, on) ==
    /\ EffectBody(focused, on) = Copies(EnableMaxCall, 1)
    /\ \A c \in BagToSet(calls) : c.fn # "enableMax"

\* A render after a change of isFocused or enabled: `resets` cleanups call
\* reset, then the effect body runs.
Rerender(focused, on, resets) ==
    /\ isFocused' = focused
    /\ enabled' = on
    /\ calls' = calls (+) Copies(ResetCall, resets) (+) EffectBody(focused, on)
    /\ BagCardinality(calls') <= MaxCalls
    /\ beforeMax' = IF Begins(focused, on) THEN Device ELSE beforeMax
    /\ UNCHANGED <<runVars, stateVars, platform, lifecycle, readyRef, wasUsingSystemRef,
                   savedAppBrightnessRef, brightness, usingSystem>>

\* The first render: the effect body runs.
Mount ==
    /\ lifecycle = "idle"
    /\ lifecycle' = "mounted"
    /\ \E focused, on \in BOOLEAN :
          /\ isFocused' = focused
          /\ enabled' = on
          /\ calls' = calls (+) EffectBody(focused, on)
          /\ beforeMax' = IF Begins(focused, on) THEN Device ELSE beforeMax
    /\ UNCHANGED <<runVars, stateVars, platform, readyRef, wasUsingSystemRef,
                   savedAppBrightnessRef, brightness, usingSystem>>

\* The screen gains focus: the cleanup of the effect (line 99), then its body.
Focus ==
    /\ lifecycle = "mounted"
    /\ ~isFocused
    /\ Rerender(TRUE, enabled, 1)

\* The screen loses focus: the cleanup of useFocusEffect (line 116), the
\* cleanup of the effect (line 99), then its body (line 95).
Blur ==
    /\ lifecycle = "mounted"
    /\ isFocused
    /\ Rerender(FALSE, enabled, 2)

\* The option `enabled` changes: the cleanup of the effect, then its body.
SetEnabled ==
    /\ lifecycle = "mounted"
    /\ Rerender(isFocused, ~enabled, 1)

\* Lines 105-107: the beforeRemove listener.
BeforeRemove ==
    /\ lifecycle = "mounted"
    /\ calls' = calls (+) Copies(ResetCall, 1)
    /\ BagCardinality(calls') <= MaxCalls
    /\ UNCHANGED <<runVars, stateVars, beforeMax, platform, lifecycle, isFocused, enabled, readyRef,
                   wasUsingSystemRef, savedAppBrightnessRef, brightness, usingSystem>>

\* The component unmounts: the cleanup of the effect (line 99) and, on a
\* focused screen, the cleanup of useFocusEffect (line 116).
Unmount ==
    /\ lifecycle = "mounted"
    /\ lifecycle' = "unmounted"
    /\ calls' = calls (+) Copies(ResetCall, IF isFocused THEN 2 ELSE 1)
    /\ BagCardinality(calls') <= MaxCalls
    /\ UNCHANGED <<runVars, stateVars, beforeMax, platform, isFocused, enabled, readyRef,
                   wasUsingSystemRef, savedAppBrightnessRef, brightness, usingSystem>>

\* Brightness.setBrightnessAsync(level) and
\* Brightness.restoreSystemBrightnessAsync(): the device changes when the
\* operation is issued; the caller resumes in a later step.
SetBrightness(level) == brightness' = level /\ usingSystem' = FALSE
RestoreSystemBrightness == usingSystem' = TRUE /\ UNCHANGED brightness

\* Lines 48-60 of enableMax, given the value of wasUsingSystem: the app
\* brightness is read if the app did not follow the system, else the saved
\* value is cleared and full brightness is set.
SaveAndSetMax(c, wasUsingSystem) ==
    /\ wasUsingSystemRef' = Value(wasUsingSystem)
    /\ IF ~wasUsingSystem
       THEN /\ calls' = Without(calls, c)
                           (+) Copies(Call("enableMax", "getBrightnessAsync",
                                           wasUsingSystem, brightness), 1)
            /\ UNCHANGED <<savedAppBrightnessRef, brightness, usingSystem>>
       ELSE /\ savedAppBrightnessRef' = Null
            /\ SetBrightness(Full)
            /\ calls' = Without(calls, c)
                           (+) Copies(Call("enableMax", "setBrightnessAsync",
                                           wasUsingSystem, 0), 1)

\* Lines 34-46: enableMax resumes after ensureAvailable.
EnableMaxAfterEnsureAvailable ==
    \E c \in BagToSet(calls) :
        /\ c.fn = "enableMax" /\ c.at = "ensureAvailable"
        /\ IF platform = "android"
           THEN /\ calls' = Without(calls, c)
                               (+) Copies(Call("enableMax", "isUsingSystemBrightnessAsync",
                                               usingSystem, 0), 1)
                /\ UNCHANGED <<wasUsingSystemRef, savedAppBrightnessRef, brightness,
                               usingSystem>>
           ELSE SaveAndSetMax(c, FALSE)
        /\ UNCHANGED <<runVars, stateVars, beforeMax, platform, lifecycle, isFocused, enabled, readyRef>>

\* Lines 41-60: enableMax resumes after isUsingSystemBrightnessAsync.
EnableMaxAfterIsUsingSystem ==
    \E c \in BagToSet(calls) :
        /\ c.fn = "enableMax" /\ c.at = "isUsingSystemBrightnessAsync"
        /\ SaveAndSetMax(c, c.wasUsingSystem)
        /\ UNCHANGED <<runVars, stateVars, beforeMax, platform, lifecycle, isFocused, enabled, readyRef>>

\* Lines 51-60: enableMax resumes after getBrightnessAsync.
EnableMaxAfterGetBrightness ==
    \E c \in BagToSet(calls) :
        /\ c.fn = "enableMax" /\ c.at = "getBrightnessAsync"
        /\ savedAppBrightnessRef' = Value(c.value)
        /\ SetBrightness(Full)
        /\ calls' = Without(calls, c)
                       (+) Copies(Call("enableMax", "setBrightnessAsync",
                                       c.wasUsingSystem, 0), 1)
        /\ UNCHANGED <<runVars, stateVars, beforeMax, platform, lifecycle, isFocused, enabled, readyRef,
                       wasUsingSystemRef>>

\* Lines 60-61: enableMax resumes after setBrightnessAsync(1).
EnableMaxAfterSetBrightness ==
    \E c \in BagToSet(calls) :
        /\ c.fn = "enableMax" /\ c.at = "setBrightnessAsync"
        /\ readyRef' = TRUE
        /\ calls' = Without(calls, c)
        /\ UNCHANGED <<runVars, stateVars, beforeMax, platform, lifecycle, isFocused, enabled,
                       wasUsingSystemRef, savedAppBrightnessRef, brightness, usingSystem>>

\* Lines 83-86: the finally block of reset.
ClearSaved ==
    /\ wasUsingSystemRef' = Null
    /\ savedAppBrightnessRef' = Null
    /\ readyRef' = FALSE

\* Lines 65-87: reset resumes after ensureAvailable.
ResetAfterEnsureAvailable ==
    \E c \in BagToSet(calls) :
        /\ c.fn = "reset" /\ c.at = "ensureAvailable"
        /\ IF ~readyRef
           THEN /\ calls' = Without(calls, c)
                /\ UNCHANGED <<readyRef, wasUsingSystemRef, savedAppBrightnessRef,
                               brightness, usingSystem>>
           ELSE IF platform = "android" /\ wasUsingSystemRef = Value(TRUE)
           THEN /\ RestoreSystemBrightness
                /\ calls' = Without(calls, c)
                               (+) Copies(Call("reset", "restore", FALSE, 0), 1)
                /\ UNCHANGED <<readyRef, wasUsingSystemRef, savedAppBrightnessRef>>
           ELSE IF savedAppBrightnessRef # Null
           THEN /\ SetBrightness(savedAppBrightnessRef[1])
                /\ calls' = Without(calls, c)
                               (+) Copies(Call("reset", "restore", FALSE, 0), 1)
                /\ UNCHANGED <<readyRef, wasUsingSystemRef, savedAppBrightnessRef>>
           ELSE /\ ClearSaved
                /\ calls' = Without(calls, c)
                /\ UNCHANGED <<brightness, usingSystem>>
        /\ UNCHANGED <<runVars, stateVars, beforeMax, platform, lifecycle, isFocused, enabled>>

\* Lines 73-87: reset resumes after restoreSystemBrightnessAsync or
\* setBrightnessAsync(value).
ResetAfterRestore ==
    \E c \in BagToSet(calls) :
        /\ c.fn = "reset" /\ c.at = "restore"
        /\ ClearSaved
        /\ calls' = Without(calls, c)
        /\ UNCHANGED <<runVars, stateVars, beforeMax, platform, lifecycle, isFocused, enabled, brightness,
                       usingSystem>>

\* The pristine state of the dependency updater, which the hook does not
\* touch.
NoRun ==
    /\ pc = "start"
    /\ mainPkgName = NoArg
    /\ useLatest = FALSE
    /\ showIncompatible = FALSE
    /\ autoUpdate = FALSE
    /\ fileContent = NoFile
    /\ packageJson = NotLoaded
    /\ reply = NoReply
    /\ metadata = NoReply
    /\ allVersions = <<>>
    /\ selectedMainVersion = NoVersion
    /\ allDeps = <<>>
    /\ depIndex = 0
    /\ compatibleVersions = <<>>
    /\ console = {}
    /\ writes = 0
    /\ requests = <<>>

\* Before the component mounts: the device shows some brightness below
\* full, and on Android the app may follow the system brightness.
InitHook ==
    /\ NoRun
    /\ platform \in {"android", "ios"}
    /\ lifecycle = "idle"
    /\ isFocused = FALSE
    /\ enabled = FALSE
    /\ readyRef = FALSE
    /\ wasUsingSystemRef = Null
    /\ savedAppBrightnessRef = Null
    /\ brightness \in 0..(Full - 1)
    /\ usingSystem \in (IF platform = "android" THEN BOOLEAN ELSE {FALSE})
    /\ calls = EmptyBag
    /\ beforeMax = Device
    /\ disabled = FALSE
    /\ originalBrightness = Null
    /\ cleanup = NoCleanup

NextOfHook ==
    \/ Mount
    \/ Focus
    \/ Blur
    \/ SetEnabled
    \/ BeforeRemove
    \/ Unmount
    \/ EnableMaxAfterEnsureAvailable
    \/ EnableMaxAfterIsUsingSystem
    \/ EnableMaxAfterGetBrightness
    \/ EnableMaxAfterSetBrightness
    \/ ResetAfterEnsureAvailable
    \/ ResetAfterRestore

SpecHook == InitHook /\ [][NextOfHook]_vars

\* --------------------------- useMaxBrightness with state (RN_useMaxBrightness.ts)

\* What the version with state leaves alone: the option and the refs of the
\* version with refs.
refVars == <<enabled, readyRef, wasUsingSystemRef, savedAppBrightnessRef, beforeMax>>

\* Lines 30-40: the device after resetBrightness() of a render whose
\* originalBrightness was `captured`, on the device `dev`.  The brightness
\* operations are not awaited.
resetBrightness(dev, captured) ==
    IF captured = Null THEN dev
    ELSE IF platform = "android" THEN [dev EXCEPT !.system = TRUE]
    ELSE [level |-> captured[1], system |-> FALSE]

\* Lines 21-24: maxBrightness() of a render whose originalBrightness was
\* `captured`, on the device `dev`, up to its first await: the calls that
\* are awaiting afterwards.
maxBrightness(dev, captured) ==
    IF captured # Null THEN calls
    ELSE calls (+) Copies(Call("maxBrightness", "getBrightnessAsync", FALSE, dev.level), 1)

\* Lines 42-59: the effect runs after a render with the given isFocused and
\* disabled.  The cleanup the effect returned last runs first, with the
\* resetBrightness of the render it was created in; then the body runs with
\* the functions of this render, which closed over the state as it is
\* before those calls of setOriginalBrightness take effect.
Effect(focused, off) ==
    LET o == originalBrightness
        cleaned == IF cleanup.registered
                   THEN resetBrightness(Device, cleanup.original) ELSE Device
        resets == off \/ ~focused
        dev == IF resets THEN resetBrightness(cleaned, o) ELSE cleaned
    IN  /\ isFocused' = focused
        /\ disabled' = off
        /\ brightness' = dev.level
        /\ usingSystem' = dev.system
        /\ originalBrightness' =
              IF (cleanup.registered /\ cleanup.original # Null) \/ (resets /\ o # Null)
              THEN Null ELSE o
        /\ calls' = IF resets THEN calls ELSE maxBrightness(dev, o)
        /\ BagCardinality(calls') <= MaxCalls
        /\ cleanup' = IF off THEN NoCleanup ELSE Cleanup(TRUE, o)
        /\ UNCHANGED <<runVars, refVars, platform>>

\* The first render.
MountRN ==
    /\ lifecycle = "idle"
    /\ lifecycle' = "mounted"
    /\ \E focused, off \in BOOLEAN : Effect(focused, off)

\* isFocused changes: the effect's dependencies changed.
FocusRN ==
    /\ lifecycle = "mounted"
    /\ ~isFocused
    /\ UNCHANGED lifecycle
    /\ Effect(TRUE, disabled)

BlurRN ==
    /\ lifecycle = "mounted"
    /\ isFocused
    /\ UNCHANGED lifecycle
    /\ Effect(FALSE, disabled)

\* The argument `disabled` changes.
SetDisabled ==
    /\ lifecycle = "mounted"
    /\ UNCHANGED lifecycle
    /\ Effect(isFocused, ~disabled)

\* Lines 62-68: the beforeRemove listener.  The second effect depends on
\* originalBrightness, so the listener calls the resetBrightness of the
\* last render.
BeforeRemoveRN ==
    /\ lifecycle = "mounted"
    /\ originalBrightness # Null
    /\ LET dev == resetBrightness(Device, originalBrightness)
       IN  brightness' = dev.level /\ usingSystem' = dev.system
    /\ originalBrightness' = Null
    /\ UNCHANGED <<runVars, refVars, platform, lifecycle, isFocused, disabled, calls,
                   cleanup>>

\* The component unmounts: the cleanup the effect returned last runs (lines
\* 56-58), and the state is gone.
UnmountRN ==
    /\ lifecycle = "mounted"
    /\ lifecycle' = "unmounted"
    /\ LET dev == IF cleanup.registered
                  THEN resetBrightness(Device, cleanup.original) ELSE Device
       IN  brightness' = dev.level /\ usingSystem' = dev.system
    /\ originalBrightness' = Null
    /\ cleanup' = NoCleanup
    /\ UNCHANGED <<runVars, refVars, platform, isFocused, disabled, calls>>

\* Lines 24-27: maxBrightness resumes after getBrightnessAsync.  React drops
\* the state update of an unmounted component; nothing follows the await of
\* setBrightnessAsync(1).
MaxBrightnessAfterGetBrightness ==
    \E c \in BagToSet(calls) :
        /\ c.fn = "maxBrightness" /\ c.at = "getBrightnessAsync"
        /\ originalBrightness' =
              IF lifecycle = "mounted" THEN Value(c.value) ELSE originalBrightness
        /\ SetBrightness(Full)
        /\ calls' = Without(calls, c)
        /\ UNCHANGED <<runVars, refVars, platform, lifecycle, isFocused, disabled,
                       cleanup>>

NextOfRN ==
    \/ MountRN
    \/ FocusRN
    \/ BlurRN
    \/ SetDisabled
    \/ BeforeRemoveRN
    \/ UnmountRN
    \/ MaxBrightnessAfterGetBrightness

SpecRN == InitHook /\ [][NextOfRN]_vars

\* ------------------------------------------------------------- properties

\* The elements of a sequence.
Elems(s) == {s[i] : i \in 1..Len(s)}

\* The highest version of a non-empty set, by semver precedence.
SemverMax(S) == CHOOSE v \in S : \A w \in S : SemverGte(v, w)

\* The stable entries of a document: keys that are valid semantic versions
\* with no prerelease component.
StableEntries(doc) == {e \in Elems(doc.versions) : e.key.tag = "release"}

\* The peer constraint of entry e on the target is absent or satisfied by
\* target version v.
PeerAbsentOrSatisfied(e, v) == e.peer = NoPeer \/ Satisfies(v, e.peer)

\* The entry of the highest stable version of a document.
NewestStable(doc) ==
    CHOOSE e \in StableEntries(doc) :
        \A f \in StableEntries(doc) : SemverGte(e.key.ver, f.key.ver)

\* The keys of a document are in ascending order of precedence, the order
\* of publication of a package released in sequence.
Ascending(doc) ==
    \A i, j \in 1..Len(doc.versions) :
        (i < j /\ IsStable(doc.versions[i]) /\ IsStable(doc.versions[j]))
            => SemverGt(doc.versions[j].key.ver, doc.versions[i].key.ver)

\* Every package name is declared in at most one dependency class.
OneClass(pj) ==
    \A n \in PkgNames : ~(HasKey(pj.dependencies, n) /\ HasKey(pj.devDependencies, n))

\* The entries of package n in the two classes.
EntryOf(pj, n) == <<Get(pj.dependencies, n), Get(pj.devDependencies, n)>>

\* The entry of package n of a manifest that declares it in one class.
Declared(pj, n) ==
    IF HasKey(pj.dependencies, n) THEN Get(pj.dependencies, n)
    ELSE Get(pj.devDependencies, n)

\* C1: in every run with the autoupdate flag set, with or without the
\* latest flag, the operator prompt is never invoked, neither for the
\* target version nor for a dependency.
C1_NoPromptUnderAutoupdate ==
    autoUpdate => pc \notin {"promptTarget", "promptDep"}

\* C2: package.json is written at most once per run, by the resumption that
\* leaves the dependency loop and with the manifest then in memory; before
\* that write the file keeps the content that was loaded, and the manifest
\* in memory does not change after it.
C2_WrittenOnceAfterTheLoop ==
    [][ /\ writes' # writes =>
             /\ writes = 0 /\ writes' = 1
             /\ pc' = "done"
             /\ depIndex' > Len(allDeps')
             /\ fileContent' = packageJson'
        /\ writes' = writes => fileContent' = fileContent
        /\ writes > 0 => packageJson' = packageJson
      ]_vars

\* A completed run that replaced a dependency in its last resumption and
\* then wrote the file.
C2_Witness ==
    /\ pc = "done"
    /\ writes = 1
    /\ "replaced" \in console
    /\ fileContent = packageJson
    /\ Len(allDeps) > 1

\* The least element of a non-empty set of numbers.
MinOf(S) == CHOOSE i \in S : \A j \in S : i <= j

\* The dependency whose document the run handled last.
LastDep ==
    allDeps[CHOOSE i \in 1..Len(allDeps) :
                /\ i < depIndex \/ (i = depIndex /\ pc = "promptDep")
                /\ allDeps[i].name # mainPkgName
                /\ \A j \in (i + 1)..(depIndex - 1) : allDeps[j].name = mainPkgName]

\* The document in hand is a dependency's.
DepInHand == metadata.kind = "ok" /\ allVersions = <<>> /\ pc \in {"awaitDep", "promptDep", "done"}

\* C3 as stated, on documents whose keys are in ascending order: if the
\* newest stable version of a dependency declares a peer constraint on the
\* target that the chosen target version does not satisfy, the dependency
\* is not marked already-compatible, whatever older versions declare.
C3_NewestVersionAloneDecides ==
    [][ ( /\ pc = "awaitDep"
          /\ reply.kind = "ok"
          /\ Ascending(reply)
          /\ StableEntries(reply) # {}
          /\ ~PeerAbsentOrSatisfied(NewestStable(reply), selectedMainVersion) )
        => "compatible" \notin console'
      ]_vars

\* C3 amended: the first version of the stable list whose peer constraint
\* on the target is absent or satisfied by the chosen target version
\* decides the fast path.  The dependency is marked already-compatible
\* exactly when there is such a version and it satisfies the installed
\* range; versions before it are skipped and versions after it are not
\* examined.
C3_FirstAllowedVersionDecides ==
    [][ (pc = "awaitDep" /\ reply.kind = "ok") =>
          LET st == StableVersions(reply.versions)
              ok == {i \in 1..Len(st) : PeerAbsentOrSatisfied(st[i], selectedMainVersion)}
          IN  ("compatible" \in console')
                <=> ( /\ ok # {}
                      /\ Satisfies(st[MinOf(ok)].key.ver, allDeps[depIndex].range) )
      ]_vars

\* A dependency marked already-compatible by its second-newest version: the
\* newest one declares a peer constraint the chosen target does not satisfy.
C3_Witness ==
    /\ DepInHand
    /\ "compatible" \in console
    /\ Ascending(metadata)
    /\ Cardinality(StableEntries(metadata)) > 1
    /\ ~PeerAbsentOrSatisfied(NewestStable(metadata), selectedMainVersion)

\* The document in hand is the target's.
TargetInHand == metadata.kind = "ok" /\ (allVersions # <<>> \/ pc = "returned")

\* C4: the stable version list computed from a registry version mapping
\* holds exactly the keys that are valid semantic versions without a
\* prerelease component, in strictly descending order of precedence.
C4_StableListDescending ==
    TargetInHand =>
        /\ Elems(allVersions) = {e.key.ver : e \in StableEntries(metadata)}
        /\ \A i, j \in 1..Len(allVersions) :
                i < j => SemverGt(allVersions[i], allVersions[j])

\* The versions of a dependency's document that are compatible with the
\* chosen target version.
CompatibleSet(doc) ==
    {e.key.ver : e \in {f \in StableEntries(doc) :
                            PeerAbsentOrSatisfied(f, selectedMainVersion)}}

\* C5: under autoupdate, a dependency that is not already-compatible and
\* has a non-empty compatible set has, in the persisted manifest, exactly
\* the highest version of that set, with no range prefix.
C5_AutoupdatePinsNewestCompatible ==
    ( /\ pc = "done"
      /\ autoUpdate
      /\ DepInHand
      /\ OneClass(fileContent)
      /\ "compatible" \notin console
      /\ CompatibleSet(metadata) # {} )
    => Declared(fileContent, LastDep.name) = Exact(SemverMax(CompatibleSet(metadata)))

\* C6: in the persisted manifest the target's entry is the caret followed
\* by the newest stable version of the target under the latest flag, and
\* the version the operator chose otherwise; the dependency iteration does
\* not overwrite it.
C6_TargetEntryWritten ==
    [][ /\ ( /\ pc \in {"awaitTarget", "promptTarget"}
             /\ pc' \in {"awaitDep", "done"}
             /\ OneClass(packageJson) )
           => Declared(packageJson', mainPkgName) =
                 IF useLatest
                 THEN Caret(SemverMax({e.key.ver : e \in StableEntries(metadata')}))
                 ELSE Exact(selectedMainVersion')
        /\ pc \in {"awaitDep", "promptDep"}
           => EntryOf(packageJson', mainPkgName) = EntryOf(packageJson, mainPkgName)
        /\ pc' = "done" => fileContent' = packageJson'
      ]_vars

\* C7: if the newest stable version of a dependency satisfies the installed
\* range and declares no peer constraint on the target, or one the chosen
\* target version satisfies, the dependency is decided already-compatible,
\* no prompt is issued for it and its manifest entry stays as it was.
C7_NewestInRangeIsAlreadyCompatible ==
    [][ ( /\ pc = "awaitDep"
          /\ reply.kind = "ok"
          /\ StableEntries(reply) # {}
          /\ PeerAbsentOrSatisfied(NewestStable(reply), selectedMainVersion)
          /\ Satisfies(NewestStable(reply).key.ver, allDeps[depIndex].range) )
        => /\ "compatible" \in console'
           /\ pc' # "promptDep"
           /\ EntryOf(packageJson', allDeps[depIndex].name)
                = EntryOf(packageJson, allDeps[depIndex].name)
           /\ pc' = "done" => EntryOf(fileContent', allDeps[depIndex].name)
                                = EntryOf(fileContent, allDeps[depIndex].name)
      ]_vars

\* C8, on documents whose keys are in ascending order: whenever the
\* installed range admits a stable version whose peer constraint on the
\* target is absent or satisfied by the chosen target version, the
\* dependency is reported compatible and its entry is not rewritten.
C8_CompatibleLeftUnchanged ==
    [][ ( /\ pc = "awaitDep"
          /\ reply.kind = "ok"
          /\ Ascending(reply)
          /\ \E e \in StableEntries(reply) :
                /\ PeerAbsentOrSatisfied(e, selectedMainVersion)
                /\ Satisfies(e.key.ver, allDeps[depIndex].range) )
        => /\ "compatible" \in console'
           /\ pc' # "promptDep"
           /\ packageJson' = packageJson
      ]_vars

\* C9: when no stable version of a dependency has a peer constraint on the
\* target that is absent or satisfied by the chosen target version, the
\* compatible set is empty, the manifest entry stays as it was, in memory
\* and on disk, no prompt is issued, and the no-compatible-version notice
\* is printed exactly when the checkIncompatibilities flag is set.
C9_NoCompatibleVersion ==
    [][ ( /\ pc = "awaitDep"
          /\ reply.kind = "ok"
          /\ \A e \in StableEntries(reply) :
                ~PeerAbsentOrSatisfied(e, selectedMainVersion) )
        => /\ compatibleVersions' = <<>>
           /\ packageJson' = packageJson
           /\ pc' # "promptDep"
           /\ ("noCompatibleVersion" \in console') <=> showIncompatible
           /\ pc' = "done" => EntryOf(fileContent', allDeps[depIndex].name)
                                = EntryOf(fileContent, allDeps[depIndex].name)
      ]_vars

\* A completed run under checkIncompatibilities whose last dependency has
\* stable versions, none of them compatible with the chosen target.
C9_Witness ==
    /\ pc = "done"
    /\ DepInHand
    /\ StableEntries(metadata) # {}
    /\ CompatibleSet(metadata) = {}
    /\ "noCompatibleVersion" \in console
    /\ EntryOf(fileContent, LastDep.name) = EntryOf(packageJson, LastDep.name)

\* C10: a failure of one dependency (the fetch fails, the document is
\* unusable, or it has no stable version) is logged, changes no manifest
\* entry, and the run goes on with the next dependency or the final write.
C10_DependencyFailureIsolated ==
    [][ ( /\ pc = "awaitDep"
          /\ reply # NoReply
          /\ (reply.kind # "ok" \/ StableEntries(reply) = {}) )
        => /\ console' \cap {"failed", "noCompatibleVersion"} # {}
           /\ packageJson' = packageJson
           /\ depIndex' = NextDep(allDeps, mainPkgName, depIndex)
           /\ pc' = IF depIndex' > Len(allDeps) THEN "done" ELSE "awaitDep"
      ]_vars

\* C11: a failure of the target (its fetch fails, its document is unusable
\* or it has no stable version) ends the run at once: the step that handles
\* it changes neither the manifest in memory nor the file, requests nothing
\* and prompts for nothing, and no step follows it.
C11_TargetFailureFatal ==
    [][ /\ ( /\ pc = "awaitTarget"
             /\ reply # NoReply
             /\ (reply.kind # "ok" \/ StableEntries(reply) = {}) )
           => /\ pc' \in {"crashed", "returned"}
              /\ packageJson' = packageJson
              /\ packageJson' = fileContent'
              /\ fileContent' = fileContent
              /\ writes' = 0
              /\ requests' = <<mainPkgName>>
              /\ reply' = NoReply
        /\ pc \notin {"crashed", "returned"}
      ]_vars

\* A run ended by a target whose document has keys, none of them stable.
C11_Witness ==
    /\ pc = "returned"
    /\ metadata.kind = "ok"
    /\ metadata.versions # <<>>
    /\ StableEntries(metadata) = {}
    /\ writes = 0

\* C12: with the package name argument missing or package.json absent, the
\* first step ends the run with exit status 1: nothing is requested from
\* the registry, nothing is prompted for, the file is not written, and no
\* step follows.
C12_ConfigurationErrorExits ==
    [][ /\ (pc = "start" /\ (mainPkgName = NoArg \/ fileContent = NoFile))
           => /\ pc' = "exit1"
              /\ requests' = <<>>
              /\ reply' = NoReply
              /\ writes' = 0
              /\ fileContent' = fileContent
        /\ pc # "exit1"
      ]_vars

\* A run with a package name given that ended because package.json is absent.
C12_Witness ==
    /\ pc = "exit1"
    /\ mainPkgName # NoArg
    /\ fileContent = NoFile
    /\ "notFound" \in console
    /\ requests = <<>>

\* The versions the target prompt offers: the first TargetChoices entries
\* of the stable list.
Offered == {allVersions[k] : k \in {i \in 1..Len(allVersions) : i <= TargetChoices}}

\* C13: without the latest flag the target version is never defaulted.  The
\* run waits at the prompt with the manifest, the file and the registry
\* untouched and no version selected; the step that leaves the prompt
\* applies a version that was offered, and the offered versions are the (at
\* most 50) newest stable versions of the target.
C13_TargetChosenByOperator ==
    [][ /\ ( /\ ~useLatest
             /\ pc = "awaitTarget"
             /\ reply.kind = "ok"
             /\ StableEntries(reply) # {} )
           => /\ pc' = "promptTarget"
              /\ selectedMainVersion' = NoVersion
              /\ packageJson' = packageJson
              /\ fileContent' = fileContent
              /\ writes' = writes
              /\ requests' = requests
        /\ pc = "promptTarget"
           => /\ selectedMainVersion' \in Offered
              /\ Cardinality(Offered) <= TargetChoices
              /\ \A e \in StableEntries(metadata) :
                    e.key.ver \notin Offered
                        => \A w \in Offered : SemverGt(w, e.key.ver)
      ]_vars

\* C14: the step that applies the target version writes the chosen range
\* string to exactly one entry: the target's entry of dependencies if the
\* target is declared there, else its entry of devDependencies if it is
\* declared there, else a new entry of dependencies.  Every other entry of
\* both classes stays as it was.
C14_ApplyTargetVersionOneEntry ==
    [][ (pc \in {"awaitTarget", "promptTarget"} /\ pc' \in {"awaitDep", "done"}) =>
          LET r == IF useLatest THEN Caret(selectedMainVersion')
                   ELSE Exact(selectedMainVersion')
          IN  /\ \A n \in PkgNames \ {mainPkgName} :
                    EntryOf(packageJson', n) = EntryOf(packageJson, n)
              /\ EntryOf(packageJson', mainPkgName) =
                    IF HasKey(packageJson.dependencies, mainPkgName)
                    THEN <<r, Get(packageJson.devDependencies, mainPkgName)>>
                    ELSE IF HasKey(packageJson.devDependencies, mainPkgName)
                    THEN <<Undefined, r>>
                    ELSE <<r, Undefined>>
      ]_vars

\* C15: if every package name of the manifest as loaded is declared in at
\* most one dependency class, the same holds of the manifest in memory and
\* of the file after every step of the run.
C15_OneClassPreserved ==
    [][ (OneClass(fileContent) /\ OneClass(packageJson))
            => (OneClass(packageJson') /\ OneClass(fileContent'))
      ]_vars

\* C16: once the target's document has arrived with at least one stable
\* version, the run eventually finishes the loop and has written
\* package.json exactly once, whatever the dependencies' documents are.
C16_RunReachesFinalize ==
    (pc = "awaitTarget" /\ reply.kind = "ok" /\ StableEntries(reply) # {})
        ~> (pc = "done" /\ writes = 1)

\* A completed run whose last dependency failed and that wrote the file.
C16_Witness ==
    /\ pc = "done"
    /\ writes = 1
    /\ "failed" \in console
    /\ Len(requests) > 1

\* The manifest the example expects.
ExampleResult ==
    [dependencies |-> <<[name |-> "react", range |-> Caret(V19_1_0)],
                        [name |-> "react-dom", range |-> Exact(V19_1_0)]>>,
     devDependencies |-> <<>>]

\* C17: in the run of the example, when the newest stable version of
\* react's document is 19.1.0 the target step prompts for nothing and
\* writes ^19.1.0 for react; when then the newest stable version of
\* react-dom's document is 19.1.0 with peer range ^19.0.0 on react, the
\* dependency step prompts for nothing and the file written holds
\* react = ^19.1.0 and react-dom = 19.1.0.
C17_ReactExample ==
    [][ /\ ( /\ pc = "awaitTarget"
             /\ reply.kind = "ok"
             /\ StableEntries(reply) # {}
             /\ NewestStable(reply).key.ver = V19_1_0 )
           => /\ pc' = "awaitDep"
              /\ selectedMainVersion' = V19_1_0
              /\ Get(packageJson'.dependencies, "react") = Caret(V19_1_0)
        /\ ( /\ pc = "awaitDep"
             /\ selectedMainVersion = V19_1_0
             /\ reply.kind = "ok"
             /\ StableEntries(reply) # {}
             /\ NewestStable(reply).key.ver = V19_1_0
             /\ NewestStable(reply).peer = Caret(V19_0_0) )
           => /\ pc' = "done"
              /\ writes' = 1
              /\ fileContent' = ExampleResult
      ]_vars

\* The names of a class, in key order.
NamesOf(class) == [i \in 1..Len(class) |-> class[i].name]

\* The iteration order of the merged mapping of manifest pj without the
\* target: the keys of dependencies, then the keys of devDependencies that
\* dependencies does not have.
EvaluationOrder(pj) ==
    LET NotDirect(n) == ~HasKey(pj.dependencies, n)
        NotTarget(n) == n # mainPkgName
    IN  SelectSeq(NamesOf(pj.dependencies)
                      \o SelectSeq(NamesOf(pj.devDependencies), NotDirect),
                  NotTarget)

\* Sequence s is a prefix of sequence t.
IsPrefix(s, t) == Len(s) <= Len(t) /\ \A i \in 1..Len(s) : s[i] = t[i]

\* C19, the order: the registry is asked for the target first and then for
\* the dependencies in the iteration order of the merged mapping, each
\* package at most once; at the end of the run every dependency was asked
\* for; at most one request is pending at a time.
C19_RequestsInOrder ==
    /\ \A i, j \in 1..Len(requests) : i # j => requests[i] # requests[j]
    /\ reply # NoReply => pc \in {"awaitTarget", "awaitDep"}
    /\ pc \in {"awaitDep", "promptDep", "done"} =>
          /\ Head(requests) = mainPkgName
          /\ IsPrefix(Tail(requests), EvaluationOrder(packageJson))
          /\ pc = "done" => Tail(requests) = EvaluationOrder(packageJson)
          /\ pc # "done" => requests[Len(requests)] = allDeps[depIndex].name

\* C19, one at a time: a request is issued only by the step that finishes
\* the package in hand (its response is handled, or its prompt answered,
\* and its entry written), and a failure is followed by no second request
\* for the same package.
C19_OneDependencyAtATime ==
    [][ /\ requests' # requests =>
              /\ \E n \in PkgNames : requests' = Append(requests, n)
              /\ reply' = NoReply
              /\ \/ pc = "start"
                 \/ pc \in {"awaitTarget", "awaitDep"} /\ reply # NoReply
                 \/ pc \in {"promptTarget", "promptDep"}
        /\ (pc \in {"awaitDep", "promptDep"} /\ requests' = requests)
              => /\ pc' \in {"awaitDep", "promptDep", "done"}
                 /\ pc' = "awaitDep" => reply' # NoReply
        /\ C19_RequestsInOrder'
      ]_vars

\* A completed run that asked for the target and two dependencies, the
\* second one of devDependencies.
C19_Witness ==
    /\ pc = "done"
    /\ Len(requests) = 3
    /\ Len(packageJson.devDependencies) > 0
    /\ requests[3] = packageJson.devDependencies[Len(packageJson.devDependencies)].name

\* The versions the dependency prompt offers: the first DepChoices entries
\* of the compatible list.
OfferedForDep ==
    {compatibleVersions[k] : k \in {i \in 1..Len(compatibleVersions) : i <= DepChoices}}

\* C20: a step of the dependency loop changes no entry but those of the
\* dependency in hand, and an entry it changes then holds an exact version
\* (no range prefix) that is a stable version of the dependency's document
\* whose peer constraint on the target is absent or satisfied by the chosen
\* target version; after a prompt it is one of the at most 20 versions
\* offered; the file written at the end holds the manifest so changed.
C20_RewrittenEntriesCompatible ==
    [][ (pc \in {"awaitDep", "promptDep"}) =>
          LET doc == IF pc = "awaitDep" THEN reply ELSE metadata
              Rewritten(old, new, n) ==
                  Get(new, n) # Get(old, n) =>
                      /\ n = allDeps[depIndex].name
                      /\ doc.kind = "ok"
                      /\ \E v \in CompatibleSet(doc) : Get(new, n) = Exact(v)
                      /\ pc = "promptDep" <=> ~autoUpdate
                      /\ pc = "promptDep" =>
                            /\ \E v \in OfferedForDep : Get(new, n) = Exact(v)
                            /\ Cardinality(OfferedForDep) <= DepChoices
          IN  /\ \A n \in PkgNames :
                    /\ Rewritten(packageJson.dependencies,
                                 packageJson'.dependencies, n)
                    /\ Rewritten(packageJson.devDependencies,
                                 packageJson'.devDependencies, n)
              /\ pc' = "done" => fileContent' = packageJson'
      ]_vars

\* A completed interactive run that replaced a dependency with more
\* compatible versions than the prompt offers.
C20_Witness ==
    /\ pc = "done"
    /\ ~autoUpdate
    /\ "replaced" \in console
    /\ Len(compatibleVersions) > DepChoices
    /\ \E v \in OfferedForDep : Declared(fileContent, LastDep.name) = Exact(v)

\* The hook holds the screen at full brightness: the app brightness is full
\* and the app does not follow the system brightness.
ForcedMax == brightness = Full /\ ~usingSystem

\* C18: whenever the screen is not focused, the hook is not enabled or the
\* component is unmounted, and no call of enableMax or reset is awaiting,
\* the brightness is not held at full by the hook.
C18_NotForcedWhenInactive ==
    ( /\ lifecycle # "idle"
      /\ (lifecycle = "unmounted" \/ ~isFocused \/ ~enabled)
      /\ calls = EmptyBag )
    => ~ForcedMax


\* ------------------------------------------------------------- C21: names

\* Object.keys of a dependency class, as a set.
KeysOf(class) == {class[i].name : i \in 1..Len(class)}

\* The names the class `c` of a manifest may hold after a step that started
\* with the manifest pj: the names it held, and for dependencies also the
\* target when the step applies the target version and pj declares the
\* target in neither class.
AllowedKeys(pj, c, applies) ==
    IF /\ applies
       /\ c = "dependencies"
       /\ ~HasKey(pj.dependencies, mainPkgName)
       /\ ~HasKey(pj.devDependencies, mainPkgName)
    THEN {KeysOf(pj[c]), KeysOf(pj[c]) \cup {mainPkgName}}
    ELSE {KeysOf(pj[c])}

\* C21: no step of the run adds a package name to a dependency class or
\* removes one from it, in memory or in the written file, except that the
\* step applying the target version may create the target's entry of
\* dependencies when the target is declared in neither class; a step that
\* updates a dependency leaves the names of both classes as they were.
C21_NamesUnchanged ==
    [][ (packageJson # NotLoaded) =>
          LET applies == pc \in {"awaitTarget", "promptTarget"}
          IN  \A c \in {"dependencies", "devDependencies"} :
                /\ KeysOf(packageJson'[c]) \in AllowedKeys(packageJson, c, applies)
                /\ fileContent' # fileContent =>
                      KeysOf(fileContent'[c]) = KeysOf(packageJson'[c])
                /\ ~applies => KeysOf(packageJson'[c]) = KeysOf(packageJson[c])
      ]_vars


\* ----------------------------------------------------- C22: what is restored

\* The device shows what it showed when the sequence began: the system
\* brightness mode if the app followed the system, else the same app
\* brightness.
Restored ==
    /\ usingSystem = beforeMax.system
    /\ ~usingSystem => brightness = beforeMax.level

\* C22: when a reset completes after the hook forced full brightness (it
\* finds readyRef set and clears it), the device shows what it showed before
\* the first enableMax of the sequence, for every order of focus and enabled
\* changes; and the app brightness saved for the restoration is always the
\* one the device showed then, never the forced full brightness.
C22_ResetRestoresOriginal ==
    [][ /\ (readyRef /\ ~readyRef') => Restored'
        /\ savedAppBrightnessRef' # Null =>
              savedAppBrightnessRef'[1] = beforeMax'.level
      ]_vars


\* ------------------------------------------------ C23: cleanup on unmount

\* C23: when the component with the state-based hook unmounts while the
\* hook holds the screen at full brightness (it saved the original
\* brightness and set the maximum), the unmount leaves the device reset:
\* on Android the app follows the system brightness, elsewhere the app
\* brightness is the saved original; with or without a beforeRemove event
\* before it.
C23_UnmountResetsBrightness ==
    [][ ( /\ lifecycle = "mounted" /\ lifecycle' = "unmounted"
          /\ originalBrightness # Null
          /\ ForcedMax )
        => IF platform = "android" THEN usingSystem'
           ELSE ~usingSystem' /\ brightness' = originalBrightness[1]
      ]_vars

=============================================================================
